---- MODULE Spec2Model ----
(***************************************************************************)
(* Model of fetch-blossom-servers.js: one discovery session.               *)
(*                                                                         *)
(*   fetchBlossomServers  bootstrap of the relay list, the batch loop,     *)
(*                        the merge by url and the sort                    *)
(*   queryRelay           one promise per relay, settled by the socket's   *)
(*                        handlers or by the timer                         *)
(*   parseBlossomServer   raw event -> record or nothing                   *)
(*   main                 the output object, or exit(1)                    *)
(*                                                                         *)
(* JavaScript runs every handler to completion and drains the promise      *)
(* continuations before the next I/O event, so each handler is one action  *)
(* and the continuation of an await is taken before any further socket or  *)
(* timer event (IoTurn).                                                   *)
(*                                                                         *)
(* A string is a sequence of tokens, the scheme being the first token:     *)
(* 'https://a' is <<"https://", "a">> and '' is <<>>.                      *)
(***************************************************************************)
EXTENDS Integers, Sequences, FiniteSets, TLC

\* ------------------------------------------------------------- bounds
\* The source runs 4 core relays, up to 16 sampled relays and 6 queries per
\* batch; the model keeps the code and scales the three numbers.
NumCore == 2
maxAdditional == 1
concurrency == 2
\* Length of the directory's answer, and of one relay's accumulated list.
MaxDirectory == 2
MaxServers == 1
\* Timestamps carried by the events that relays deliver.
MaxCreatedAt == 1
\* One connection followed alone: the records its list may hold.
ConnMaxServers == 2
\* The parser alone: the tags of one event.
ParseMaxTags == 2
\* The merge specification: timestamps, and records over all relays together.
MergeMaxCreatedAt == 2
MergeMaxTotal == 3

\* ------------------------------------------------------------ strings
StartsWith(s, prefix) ==
    /\ Len(s) >= Len(prefix)
    /\ SubSeq(s, 1, Len(prefix)) = prefix

Wss == <<"wss://">>
Https == <<"https://">>

\* ------------------------------------------------------- relay list
AllCoreRelays ==
    << <<"wss://", "relay.damus.io">>, <<"wss://", "nos.lol">>,
       <<"wss://", "relay.nostr.band">>, <<"wss://", "relay.primal.net">> >>

coreRelays == SubSeq(AllCoreRelays, 1, NumCore)

Range(s) == {s[k] : k \in 1..Len(s)}

\* A value of the directory's JSON list: a string or something else.
DirectoryEntries ==
    { [isString |-> TRUE,  text |-> <<"wss://", "extra.example">>],
      [isString |-> TRUE,  text |-> <<"wss://">>],
      [isString |-> TRUE,  text |-> <<"ws://", "plain.example">>],
      [isString |-> TRUE,  text |-> coreRelays[1]],
      [isString |-> FALSE, text |-> <<>>] }

SeqsUpTo(S, n) == UNION {[1..k -> S] : k \in 0..n}

\* What the call to the directory can come to.
DirectoryResponses ==
    { [outcome |-> o, body |-> <<>>] :
        o \in {"network_error", "aborted", "not_ok", "bad_json", "not_list"} }
    \cup { [outcome |-> "list", body |-> b] : b \in SeqsUpTo(DirectoryEntries, MaxDirectory) }

\* relay => typeof relay === 'string' && relay.startsWith('wss://')
IsWssString(entry) == entry.isString /\ StartsWith(entry.text, Wss)

\* A filter that lets the core relays through a second time.
NotCoreAlways(entry) == TRUE

\* relay => !coreRelays.includes(relay)
NotCore(entry) == entry.text \notin Range(coreRelays)

RECURSIVE additionalRelays(_)
additionalRelays(body) ==
    IF body = <<>> THEN <<>>
    ELSE (IF IsWssString(Head(body)) /\ NotCore(Head(body)) THEN <<Head(body)>> ELSE <<>>)
         \o additionalRelays(Tail(body))

SeqPermutations(s) ==
    { [k \in 1..Len(s) |-> s[p[k]]] :
        p \in {f \in [1..Len(s) -> 1..Len(s)] : \A a, b \in 1..Len(s) : a # b => f[a] # f[b]} }

Min(a, b) == IF a < b THEN a ELSE b

Texts(s) == [k \in 1..Len(s) |-> s[k].text]

\* sort(() => Math.random() - 0.5) leaves some permutation; slice keeps a prefix.
SelectedRelays(body) ==
    { Texts(SubSeq(sh, 1, Min(Len(sh), maxAdditional))) :
        sh \in SeqPermutations(additionalRelays(body)) }

\* A catch block that loses the list with the directory.
RelayListsLostOnFailure(resp) ==
    IF resp.outcome = "list"
    THEN { coreRelays \o sel : sel \in SelectedRelays(resp.body) }
    ELSE { <<>> }

RelayLists(resp) ==
    IF resp.outcome = "list"
    THEN { coreRelays \o sel : sel \in SelectedRelays(resp.body) }
    ELSE { coreRelays }

MaxRelays == Len(coreRelays) + maxAdditional
Queries == 1..MaxRelays

\* new WebSocket(address) throws on an address that is no URL.
InvalidUrl(address) == Len(address) < 2

\* ------------------------------------------------------------ events
Urls == { <<"https://", "a">>, <<"https://", "b">> }

\* A JSON value in a tag: a string, or something else (null and undefined have
\* no text, a number or an array has).
Str(text) == [isString |-> TRUE, text |-> text]
Null == [isString |-> FALSE, text |-> <<>>]
NotString == [isString |-> FALSE, text |-> <<"5">>]

\* !value
Falsy(value) == value.text = <<>>

\* An element of event.tags: an array of values, or null.
Tag(items) == [isNull |-> FALSE, items |-> items]
NullTag == [isNull |-> TRUE, items |-> <<>>]

Event(tags, createdAt, id) ==
    [tagsIsArray |-> TRUE, tags |-> tags, pubkey |-> "pk", created_at |-> createdAt,
     id |-> id]

\* An event whose tags are no array.
NoTagsEvent ==
    [tagsIsArray |-> FALSE, tags |-> <<>>, pubkey |-> "pk", created_at |-> 1,
     id |-> <<"ev", "notags", 1>>]

\* The announcement of url at time t.
Announcement(url, t) == Event(<< Tag(<<"d", Str(url)>>) >>, t, <<"ev", url[2], t>>)

\* Announcements that parse to a record.
Announcements(maxCreatedAt) ==
    { Announcement(u, t) : u \in Urls, t \in 1..maxCreatedAt }

ValidEvents == Announcements(MaxCreatedAt)

\* Events that do not: no d tag, an empty value, an insecure url, tags that are
\* no array, a null among the tags.
InvalidEvents ==
    { Event(<< Tag(<<"name", Str(<<"n">>)>>) >>, 1, <<"ev", "nod", 1>>),
      Event(<< Tag(<<"d", Str(<<>>)>>) >>, 1, <<"ev", "empty", 1>>),
      Event(<< Tag(<<"d", Str(<<"http://", "a">>)>>) >>, 1, <<"ev", "http", 1>>),
      Event(<< NullTag, Tag(<<"d", Str(<<"https://", "a">>)>>) >>, 1, <<"ev", "null", 1>>),
      NoTagsEvent }

RawEvents == ValidEvents \cup InvalidEvents

\* tags.find(tag => tag[0] === key): the first such tag, as a list of 0 or 1;
\* tag[0] of a null tag throws.
RECURSIVE FindTag(_, _)
FindTag(tags, key) ==
    IF tags = <<>> THEN [threw |-> FALSE, found |-> <<>>]
    ELSE IF Head(tags).isNull THEN [threw |-> TRUE, found |-> <<>>]
    ELSE IF Len(Head(tags).items) >= 1 /\ Head(tags).items[1] = key
         THEN [threw |-> FALSE, found |-> <<Head(tags)>>]
    ELSE FindTag(Tail(tags), key)

\* tag ? tag[1] : null, with a missing element as null.
TagValue(found) ==
    IF found = <<>> \/ Len(found[1].items) < 2 THEN Null ELSE found[1].items[2]

\* The check of the scheme left out.
parseBlossomServerAnyScheme(event) ==
    IF ~event.tagsIsArray THEN <<>>
    ELSE LET dTag == FindTag(event.tags, "d")
             nameTag == FindTag(event.tags, "name")
             descTag == FindTag(event.tags, "description") IN
         IF dTag.threw THEN <<>>
         ELSE IF dTag.found = <<>> \/ Falsy(TagValue(dTag.found)) THEN <<>>
         ELSE LET serverUrl == TagValue(dTag.found) IN
              IF ~serverUrl.isString THEN <<>>
              ELSE IF nameTag.threw \/ descTag.threw THEN <<>>
              ELSE << [url |-> serverUrl.text,
                       name |-> TagValue(nameTag.found),
                       description |-> TagValue(descTag.found),
                       pubkey |-> event.pubkey,
                       created_at |-> event.created_at,
                       event_id |-> event.id] >>

\* The record or nothing, as a list of 0 or 1 records. Whatever throws inside
\* the try (tags that have no find, tag[0] of a null tag, a url that has no
\* startsWith) is caught and gives nothing.
parseBlossomServer(event) ==
    IF ~event.tagsIsArray THEN <<>>
    ELSE LET dTag == FindTag(event.tags, "d")
             nameTag == FindTag(event.tags, "name")
             descTag == FindTag(event.tags, "description") IN
         IF dTag.threw THEN <<>>
         ELSE IF dTag.found = <<>> \/ Falsy(TagValue(dTag.found)) THEN <<>>
         ELSE LET serverUrl == TagValue(dTag.found) IN
              IF ~serverUrl.isString THEN <<>>
              ELSE IF ~StartsWith(serverUrl.text, Https) THEN <<>>
              ELSE IF nameTag.threw \/ descTag.threw THEN <<>>
              ELSE << [url |-> serverUrl.text,
                       name |-> TagValue(nameTag.found),
                       description |-> TagValue(descTag.found),
                       pubkey |-> event.pubkey,
                       created_at |-> event.created_at,
                       event_id |-> event.id] >>

\* ---------------------------------------------------------- messages
\* 'blossom-' + a random suffix, one per query; and some other subscription's.
SubId(q) == <<"blossom-", q>>
OtherSub == <<"blossom-", 0>>

OwnEvent(q, event) == [decodes |-> TRUE, type |-> "EVENT", sub |-> SubId(q), event |-> event]

Messages(q) ==
    { [decodes |-> FALSE, type |-> "", sub |-> OtherSub, event |-> NoTagsEvent] }
    \cup { [decodes |-> TRUE, type |-> "EVENT", sub |-> SubId(q), event |-> e] : e \in RawEvents }
    \cup { [decodes |-> TRUE, type |-> "EVENT", sub |-> OtherSub, event |-> e] : e \in ValidEvents }
    \cup { [decodes |-> TRUE, type |-> ty, sub |-> s, event |-> NoTagsEvent] :
             ty \in {"EOSE", "NOTICE"}, s \in {SubId(q), OtherSub} }

VARIABLES
    pc,          \* where the session is: bootstrap, loop, await, done, failed
    directory,   \* how the call to the relay directory ended
    allRelays,   \* the relay list
    i,           \* the batch loop's index
    results,     \* per relay, what the batch loop kept: a query's list or a fresh []
    serverMap,   \* the Map url -> record, in insertion order
    output,      \* what main writes
    ws,          \* per query, the socket
    subscribed,  \* per query, whether REQ was sent
    servers,     \* per query, the accumulated records
    timer,       \* per query, whether the timeout is armed
    promise,     \* per query, the promise: none, pending, resolved, rejected
    settledBy,   \* per query, the trigger that settled the promise
    data         \* the inbound message a connection handled last; followed only
                 \* by the specification of one connection

vars == <<pc, directory, allRelays, i, results, serverMap, output, ws, subscribed,
          servers, timer, promise, settledBy, data>>

orchestratorVars == <<pc, directory, allRelays, i, results, serverMap, output>>

NoData == [query |-> 0, message |-> CHOOSE m \in Messages(0) : ~m.decodes]

NoOutput == [success |-> FALSE, count |-> 0, relays_searched |-> 0, servers |-> <<>>]

Init ==
    /\ pc = "bootstrap"
    /\ directory = "pending"
    /\ allRelays = coreRelays
    /\ i = 0
    /\ results = <<>>
    /\ serverMap = <<>>
    /\ output = NoOutput
    /\ ws = [q \in Queries |-> "IDLE"]
    /\ subscribed = [q \in Queries |-> FALSE]
    /\ servers = [q \in Queries |-> <<>>]
    /\ timer = [q \in Queries |-> FALSE]
    /\ promise = [q \in Queries |-> "none"]
    /\ settledBy = [q \in Queries |-> "none"]
    /\ data = NoData

\* ------------------------------------------------------ the promise
\* resolve(...) and reject(...) settle a pending promise and do nothing to a
\* settled one.
SettleAlways(q, state, by) ==
    /\ promise' = [promise EXCEPT ![q] = state]
    /\ settledBy' = [settledBy EXCEPT ![q] = by]

Settle(q, state, by) ==
    IF promise[q] = "pending"
    THEN /\ promise' = [promise EXCEPT ![q] = state]
         /\ settledBy' = [settledBy EXCEPT ![q] = by]
    ELSE UNCHANGED <<promise, settledBy>>

\* ------------------------------------------------------- the socket
\* ws.close(): a socket that is still connecting aborts its handshake (it will
\* emit 'error', then 'close'); an open one starts the closing handshake and
\* goes on delivering what arrives until the peer answers.
WsClose(state) ==
    CASE state = "CONNECTING" -> "ABORTING"
      [] state = "OPEN" -> "CLOSING"
      [] OTHER -> state

\* ------------------------------------------------------- batch loop
\* allRelays.slice(i): the end of the slice forgotten.
BatchToTheEnd == (i + 1)..Len(allRelays)

\* allRelays.slice(i, i + concurrency)
Batch == (i + 1)..Min(i + concurrency, Len(allRelays))

\* The query handed to Promise.all without its catch.
WrappedRethrows(q) ==
    IF promise[q] = "rejected" THEN [state |-> "rejected", kind |-> "empty", query |-> q]
    ELSE [state |-> promise[q], kind |-> "list", query |-> q]

\* queryRelay(relay, timeout).catch(err => []): what Promise.all is given.
Wrapped(q) ==
    IF promise[q] = "rejected" THEN [state |-> "resolved", kind |-> "empty", query |-> q]
    ELSE [state |-> promise[q], kind |-> "list", query |-> q]

\* Promise.race in the place of Promise.all.
BatchAwaitDoneAny ==
    \E q \in Batch : Wrapped(q).state \in {"resolved", "rejected"}

\* Promise.all settles when every promise of the batch has resolved, or as soon
\* as one has rejected.
BatchAwaitDone ==
    \/ \A q \in Batch : Wrapped(q).state = "resolved"
    \/ \E q \in Batch : Wrapped(q).state = "rejected"

\* A socket or timer event is taken only when no continuation is runnable.
IoTurn == pc = "await" /\ ~BatchAwaitDone

\* The list a kept result stands for: the query's own array, or a fresh [].
ResultList(r) == IF r.kind = "list" THEN servers[r.query] ELSE <<>>

\* ------------------------------------------------------------ merge
MapHas(map, url) == \E k \in 1..Len(map) : map[k].url = url

MapGet(map, url) == map[CHOOSE k \in 1..Len(map) : map[k].url = url]

\* Every record pushed to a list, as an array in place of the Map would do.
MapSetAppends(map, server) == Append(map, server)

\* A Map keeps the insertion order of its keys; set on a present key replaces
\* the value in place.

MapSet(map, server) ==
    IF MapHas(map, server.url)
    THEN [k \in 1..Len(map) |-> IF map[k].url = server.url THEN server ELSE map[k]]
    ELSE Append(map, server)

\* The comparison turned round: the older announcement wins.
MergeServerKeepsOlder(map, server) ==
    IF ~MapHas(map, server.url) \/ server.created_at < MapGet(map, server.url).created_at
    THEN MapSet(map, server)
    ELSE map

\* Lines 72-76.
MergeServer(map, server) ==
    IF ~MapHas(map, server.url) \/ server.created_at > MapGet(map, server.url).created_at
    THEN MapSet(map, server)
    ELSE map

RECURSIVE MergeRelay(_, _)
MergeRelay(map, relayServers) ==
    IF relayServers = <<>> THEN map
    ELSE MergeRelay(MergeServer(map, Head(relayServers)), Tail(relayServers))

RECURSIVE MergeResults(_, _)
MergeResults(map, lists) ==
    IF lists = <<>> THEN map
    ELSE MergeResults(MergeRelay(map, Head(lists)), Tail(lists))

\* Array.prototype.sort is stable: with (a, b) => b.created_at - a.created_at
\* a record goes behind every record that is not older than it.
\* The comparator turned round: (a, b) => a.created_at - b.created_at.
RECURSIVE InsertAsc(_, _)
InsertAsc(sorted, server) ==
    IF sorted = <<>> THEN <<server>>
    ELSE IF Head(sorted).created_at <= server.created_at
         THEN <<Head(sorted)>> \o InsertAsc(Tail(sorted), server)
         ELSE <<server>> \o sorted

RECURSIVE InsertDesc(_, _)
InsertDesc(sorted, server) ==
    IF sorted = <<>> THEN <<server>>
    ELSE IF Head(sorted).created_at >= server.created_at
         THEN <<Head(sorted)>> \o InsertDesc(Tail(sorted), server)
         ELSE <<server>> \o sorted

RECURSIVE SortDesc(_)
SortDesc(values) ==
    IF values = <<>> THEN <<>>
    ELSE InsertDesc(SortDesc(SubSeq(values, 1, Len(values) - 1)), values[Len(values)])

UrlsOf(records) == [k \in 1..Len(records) |-> records[k].url]

\* The sort forgotten: the Map's insertion order.
sortedServersUnsorted(map) == UrlsOf(map)

sortedServers(map) == UrlsOf(SortDesc(map))

\* ---------------------------------------------------------- actions
\* Lines 16-47: the relay list, from the directory or the core set alone.
Bootstrap ==
    /\ pc = "bootstrap"
    /\ \E resp \in DirectoryResponses :
         /\ directory' = resp.outcome
         /\ allRelays' \in RelayLists(resp)
    /\ pc' = "loop"
    /\ UNCHANGED <<i, results, serverMap, output, ws, subscribed, servers, timer,
                   promise, settledBy, data>>

\* The queries created without their timers.
StartBatchNoTimer ==
    /\ pc = "loop"
    /\ i < Len(allRelays)
    /\ ws' = [q \in Queries |->
                IF q \in Batch /\ ~InvalidUrl(allRelays[q]) THEN "CONNECTING" ELSE ws[q]]
    /\ promise' = [q \in Queries |->
                IF q \in Batch
                THEN (IF InvalidUrl(allRelays[q]) THEN "rejected" ELSE "pending")
                ELSE promise[q]]
    /\ settledBy' = [q \in Queries |->
                IF q \in Batch /\ InvalidUrl(allRelays[q]) THEN "throw" ELSE settledBy[q]]
    /\ pc' = "await"
    /\ UNCHANGED <<directory, allRelays, i, results, serverMap, output, subscribed,
                   servers, timer, data>>

\* Lines 56-64 and 92-104: one batch of queries is created; each opens its
\* socket and arms its timer, or rejects at once on an address that is no URL.
StartBatch ==
    /\ pc = "loop"
    /\ i < Len(allRelays)
    /\ ws' = [q \in Queries |->
                IF q \in Batch /\ ~InvalidUrl(allRelays[q]) THEN "CONNECTING" ELSE ws[q]]
    /\ timer' = [q \in Queries |->
                IF q \in Batch /\ ~InvalidUrl(allRelays[q]) THEN TRUE ELSE timer[q]]
    /\ promise' = [q \in Queries |->
                IF q \in Batch
                THEN (IF InvalidUrl(allRelays[q]) THEN "rejected" ELSE "pending")
                ELSE promise[q]]
    /\ settledBy' = [q \in Queries |->
                IF q \in Batch /\ InvalidUrl(allRelays[q]) THEN "throw" ELSE settledBy[q]]
    /\ pc' = "await"
    /\ UNCHANGED <<directory, allRelays, i, results, serverMap, output, subscribed,
                   servers, data>>

\* A loop that does not advance its index.
AwaitBatchKeepsIndex ==
    /\ pc = "await"
    /\ BatchAwaitDone
    /\ pc' = (IF \E q \in Batch : Wrapped(q).state = "rejected" THEN "failed" ELSE "loop")
    /\ UNCHANGED <<directory, allRelays, i, results, serverMap, output, ws, subscribed,
                   servers, timer, promise, settledBy, data>>

\* Lines 65-66, and 206-209 when Promise.all rejects.
AwaitBatch ==
    /\ pc = "await"
    /\ BatchAwaitDone
    /\ IF \E q \in Batch : Wrapped(q).state = "rejected"
       THEN /\ pc' = "failed"
            /\ UNCHANGED <<i, results>>
       ELSE /\ results' = results \o [k \in 1..Cardinality(Batch) |-> Wrapped(i + k)]
            /\ i' = i + concurrency
            /\ pc' = "loop"
    /\ UNCHANGED <<directory, allRelays, serverMap, output, ws, subscribed, servers,
                   timer, promise, settledBy, data>>

\* The merge run from inside the loop, after any batch.
MergeAndFinishEarly ==
    /\ pc = "loop"
    /\ serverMap' = MergeResults(serverMap, [k \in 1..Len(results) |-> ResultList(results[k])])
    /\ output' = [success |-> TRUE,
                  count |-> Len(sortedServers(serverMap')),
                  relays_searched |-> Len(allRelays),
                  servers |-> sortedServers(serverMap')]
    /\ pc' = "done"
    /\ UNCHANGED <<directory, allRelays, i, results, ws, subscribed, servers, timer,
                   promise, settledBy, data>>

\* Lines 69-88 and 188-205: merge, sort, and the output object.
MergeAndFinish ==
    /\ pc = "loop"
    /\ i >= Len(allRelays)
    /\ serverMap' = MergeResults(serverMap, [k \in 1..Len(results) |-> ResultList(results[k])])
    /\ output' = [success |-> TRUE,
                  count |-> Len(sortedServers(serverMap')),
                  relays_searched |-> Len(allRelays),
                  servers |-> sortedServers(serverMap')]
    /\ pc' = "done"
    /\ UNCHANGED <<directory, allRelays, i, results, ws, subscribed, servers, timer,
                   promise, settledBy, data>>

\* Lines 106-117.
OnOpen(q) ==
    /\ IoTurn
    /\ ws[q] = "CONNECTING"
    /\ ws' = [ws EXCEPT ![q] = "OPEN"]
    /\ subscribed' = [subscribed EXCEPT ![q] = TRUE]
    /\ UNCHANGED <<orchestratorVars, servers, timer, promise, settledBy, data>>

\* The subscription id left unchecked.
IsOwnAnySub(message, q, type) ==
    message.decodes /\ message.type = type

IsOwn(message, q, type) ==
    message.decodes /\ message.type = type /\ message.sub = SubId(q)

\* Lines 124-130: the list after the message.
Pushed(q, message) ==
    IF IsOwn(message, q, "EVENT")
    THEN servers[q] \o parseBlossomServer(message.event)
    ELSE servers[q]

\* A catch block that gives the relay up: close and resolve on a message that
\* does not decode.
HandleMessageEndsOnError(q, message, maxServers) ==
    /\ IoTurn
    /\ ws[q] \in {"OPEN", "CLOSING"}
    /\ Len(Pushed(q, message)) <= maxServers
    /\ servers' = [servers EXCEPT ![q] = Pushed(q, message)]
    /\ IF IsOwn(message, q, "EOSE") \/ ~message.decodes
       THEN /\ timer' = [timer EXCEPT ![q] = FALSE]
            /\ ws' = [ws EXCEPT ![q] = WsClose(ws[q])]
            /\ Settle(q, "resolved", "eose")
       ELSE UNCHANGED <<timer, ws, promise, settledBy>>
    /\ UNCHANGED <<orchestratorVars, subscribed>>

\* Lines 119-141, the list kept within maxServers records.
HandleMessage(q, message, maxServers) ==
    /\ IoTurn
    /\ ws[q] \in {"OPEN", "CLOSING"}
    /\ Len(Pushed(q, message)) <= maxServers
    /\ servers' = [servers EXCEPT ![q] = Pushed(q, message)]
    /\ IF IsOwn(message, q, "EOSE")
       THEN /\ timer' = [timer EXCEPT ![q] = FALSE]
            /\ ws' = [ws EXCEPT ![q] = WsClose(ws[q])]
            /\ Settle(q, "resolved", "eose")
       ELSE UNCHANGED <<timer, ws, promise, settledBy>>
    /\ UNCHANGED <<orchestratorVars, subscribed>>

OnMessage(q, message) ==
    /\ HandleMessage(q, message, MaxServers)
    /\ UNCHANGED data

\* The timer's callback closing the socket and leaving the promise alone.
OnTimeoutOnlyCloses(q) ==
    /\ IoTurn
    /\ timer[q]
    /\ timer' = [timer EXCEPT ![q] = FALSE]
    /\ ws' = [ws EXCEPT ![q] = WsClose(ws[q])]
    /\ UNCHANGED <<orchestratorVars, subscribed, servers, promise, settledBy, data>>

\* Lines 101-104.
OnTimeout(q) ==
    /\ IoTurn
    /\ timer[q]
    /\ timer' = [timer EXCEPT ![q] = FALSE]
    /\ ws' = [ws EXCEPT ![q] = WsClose(ws[q])]
    /\ Settle(q, "resolved", "timeout")
    /\ UNCHANGED <<orchestratorVars, subscribed, servers, data>>

\* Lines 143-146. The socket is torn down and will emit 'close'.
OnError(q) ==
    /\ IoTurn
    /\ ws[q] \in {"CONNECTING", "ABORTING", "OPEN", "CLOSING"}
    /\ ws' = [ws EXCEPT ![q] = "ERRORED"]
    /\ timer' = [timer EXCEPT ![q] = FALSE]
    /\ Settle(q, "rejected", "error")
    /\ UNCHANGED <<orchestratorVars, subscribed, servers, data>>

\* Lines 148-151.
OnClose(q) ==
    /\ IoTurn
    /\ ws[q] \in {"OPEN", "CLOSING", "ERRORED"}
    /\ ws' = [ws EXCEPT ![q] = "CLOSED"]
    /\ timer' = [timer EXCEPT ![q] = FALSE]
    /\ Settle(q, "resolved", "close")
    /\ UNCHANGED <<orchestratorVars, subscribed, servers, data>>

Started == {q \in Queries : promise[q] # "none"}

Open == \E q \in Started : OnOpen(q)
Message == \E q \in Started : \E message \in Messages(q) : OnMessage(q, message)
Timeout == \E q \in Started : OnTimeout(q)
Error == \E q \in Started : OnError(q)
Close == \E q \in Started : OnClose(q)

Next ==
    \/ Bootstrap
    \/ StartBatch
    \/ AwaitBatch
    \/ MergeAndFinish
    \/ Open
    \/ Message
    \/ Timeout
    \/ Error
    \/ Close

Spec == Init /\ [][Next]_vars

\* --------------------------------------------------------- fairness
\* An armed timer fires, and a runnable continuation runs; a relay owes nothing.
FairSpec ==
    /\ Spec
    /\ \A q \in Queries : WF_vars(OnTimeout(q))
    /\ WF_vars(Bootstrap)
    /\ WF_vars(StartBatch)
    /\ WF_vars(AwaitBatch)
    /\ WF_vars(MergeAndFinish)

\* ------------------------------------------- the merge step alone
\* The session at the end of its batch loop, the directory having failed and
\* every core relay having delivered some records and closed.
MergeRecords == { parseBlossomServer(e)[1] : e \in Announcements(MergeMaxCreatedAt) }

\* The records of `flat` that `owner` gives to relay q, in their order.
RECURSIVE OwnedBy(_, _, _)
OwnedBy(flat, owner, q) ==
    IF flat = <<>> THEN <<>>
    ELSE (IF Head(owner) = q THEN <<Head(flat)>> ELSE <<>>)
         \o OwnedBy(Tail(flat), Tail(owner), q)

\* Every way for the core relays to deliver at most MergeMaxTotal records.
MergeInputs ==
    { [q \in 1..Len(coreRelays) |-> OwnedBy(flat, owner, q)] :
        <<flat, owner>> \in
            UNION { [1..n -> MergeRecords] \X
                    { o \in [1..n -> 1..Len(coreRelays)] :
                        \A k \in 1..(n - 1) : o[k] <= o[k + 1] } :
                    n \in 0..MergeMaxTotal } }

LoopEnd(n) == ((n + concurrency - 1) \div concurrency) * concurrency

MergeInit ==
    /\ pc = "loop"
    /\ directory = "network_error"
    /\ allRelays = coreRelays
    /\ i = LoopEnd(Len(coreRelays))
    /\ results = [k \in 1..Len(coreRelays) |-> [state |-> "resolved", kind |-> "list", query |-> k]]
    /\ serverMap = <<>>
    /\ output = NoOutput
    /\ \E lists \in MergeInputs :
         servers = [q \in Queries |-> IF q <= Len(coreRelays) THEN lists[q] ELSE <<>>]
    /\ ws = [q \in Queries |-> IF q <= Len(coreRelays) THEN "CLOSED" ELSE "IDLE"]
    /\ subscribed = [q \in Queries |-> q <= Len(coreRelays)]
    /\ timer = [q \in Queries |-> FALSE]
    /\ promise = [q \in Queries |-> IF q <= Len(coreRelays) THEN "resolved" ELSE "none"]
    /\ settledBy = [q \in Queries |-> IF q <= Len(coreRelays) THEN "close" ELSE "none"]
    /\ data = NoData

MergeNext == MergeAndFinish

MergeSpec == MergeInit /\ [][MergeNext]_vars

\* ------------------------------------------------ one connection alone
\* The first batch has just been created over the core relays.
ConnInit ==
    /\ pc = "await"
    /\ directory = "network_error"
    /\ allRelays = coreRelays
    /\ i = 0
    /\ results = <<>>
    /\ serverMap = <<>>
    /\ output = NoOutput
    /\ ws = [q \in Queries |-> IF q \in 1..Min(concurrency, Len(coreRelays)) THEN "CONNECTING" ELSE "IDLE"]
    /\ subscribed = [q \in Queries |-> FALSE]
    /\ servers = [q \in Queries |-> <<>>]
    /\ timer = [q \in Queries |-> q \in 1..Min(concurrency, Len(coreRelays))]
    /\ promise = [q \in Queries |->
                    IF q \in 1..Min(concurrency, Len(coreRelays)) THEN "pending" ELSE "none"]
    /\ settledBy = [q \in Queries |-> "none"]
    /\ data = NoData

\* The query followed: the first of the batch. The others stay as they are,
\* their relays silent.
FirstOfBatch == i + 1

\* The message handler run on message, the message kept in data.
Deliver(q, message, maxServers) ==
    /\ data' = [query |-> q, message |-> message]
    /\ HandleMessage(q, message, maxServers)

ConnOpen == OnOpen(FirstOfBatch)
ConnMessage == \E message \in Messages(FirstOfBatch) : Deliver(FirstOfBatch, message, ConnMaxServers)
ConnTimeout == OnTimeout(FirstOfBatch)
ConnError == OnError(FirstOfBatch)
ConnClose == OnClose(FirstOfBatch)

ConnNext ==
    \/ ConnOpen
    \/ ConnMessage
    \/ ConnTimeout
    \/ ConnError
    \/ ConnClose

ConnectionSpec == ConnInit /\ [][ConnNext]_vars

\* ------------------------------------------------- the parser alone
\* Tags an event can carry: null, d tags with a secure, an insecure, an empty,
\* a missing and a non-string value, a name and a description.
ParseTags ==
    { NullTag,
      Tag(<<"d", Str(<<"https://", "a">>)>>),
      Tag(<<"d", Str(<<"http://", "a">>)>>),
      Tag(<<"d", Str(<<>>)>>),
      Tag(<<"d">>),
      Tag(<<"d", NotString>>),
      Tag(<<"name", Str(<<"n">>)>>),
      Tag(<<"description", Str(<<"x">>)>>) }

ParseEvents ==
    { Event(tags, 1, <<"ev", "p", k>>) :
        tags \in SeqsUpTo(ParseTags, ParseMaxTags), k \in 1..2 }
    \cup { NoTagsEvent }

ParseMessages(q) ==
    { [decodes |-> TRUE, type |-> "EVENT", sub |-> SubId(q), event |-> e] : e \in ParseEvents }

\* One EVENT message, the first on its connection: the handler appends what the
\* parser returns to an empty list.
ParseMessage ==
    /\ data = NoData
    /\ \E message \in ParseMessages(FirstOfBatch) : Deliver(FirstOfBatch, message, 1)

ParseNext ==
    \/ ConnOpen
    \/ ParseMessage

ParseSpec == ConnInit /\ [][ParseNext]_vars

\* ------------------------------------------------------ a scenario
\* Three relays: the first stays silent until its timer fires, the second
\* announces url1 at 100 and url2 at 50, the third url1 at 200 and url3 at 75.
ScenarioRelays == SubSeq(coreRelays \o << <<"wss://", "extra.example">> >>, 1, 3)

ScenarioUrl(n) == <<"https://", n>>

ScenarioScript ==
    << {},
       { Announcement(ScenarioUrl("url1"), 100), Announcement(ScenarioUrl("url2"), 50) },
       { Announcement(ScenarioUrl("url1"), 200), Announcement(ScenarioUrl("url3"), 75) } >>

\* The announcements relay q has yet to deliver.
ToDeliver(q) ==
    {e \in ScenarioScript[q] : parseBlossomServer(e)[1] \notin Range(servers[q])}

\* The session has its relay list of three and enters the batch loop.
ScenarioInit ==
    /\ pc = "loop"
    /\ directory = (IF ScenarioRelays = coreRelays THEN "network_error" ELSE "list")
    /\ allRelays = ScenarioRelays
    /\ i = 0
    /\ results = <<>>
    /\ serverMap = <<>>
    /\ output = NoOutput
    /\ ws = [q \in Queries |-> "IDLE"]
    /\ subscribed = [q \in Queries |-> FALSE]
    /\ servers = [q \in Queries |-> <<>>]
    /\ timer = [q \in Queries |-> FALSE]
    /\ promise = [q \in Queries |-> "none"]
    /\ settledBy = [q \in Queries |-> "none"]
    /\ data = NoData

ScenarioOpen == \E q \in Started : OnOpen(q)

\* A relay delivers one of its announcements, in any order.
ScenarioEvent ==
    \E q \in Started : \E e \in ToDeliver(q) :
        /\ HandleMessage(q, OwnEvent(q, e), Cardinality(ScenarioScript[q]))
        /\ UNCHANGED data

\* A relay that has delivered its announcements ends the stored events,
ScenarioEose ==
    \E q \in Started :
        /\ ScenarioScript[q] # {}
        /\ ToDeliver(q) = {}
        /\ HandleMessage(q, [decodes |-> TRUE, type |-> "EOSE", sub |-> SubId(q),
                             event |-> NoTagsEvent], Cardinality(ScenarioScript[q]))
        /\ UNCHANGED data

\* or says no more until the timer fires, as the silent relay does from the start,
ScenarioTimeout == \E q \in Started : ToDeliver(q) = {} /\ OnTimeout(q)

\* or closes the connection, as every socket does once it is closing.
ScenarioClose ==
    \E q \in Started :
        /\ \/ ws[q] \in {"CLOSING", "ERRORED"}
           \/ ScenarioScript[q] # {} /\ ToDeliver(q) = {}
        /\ OnClose(q)

\* A handshake aborted by the timer emits error.
ScenarioError == \E q \in Started : ws[q] = "ABORTING" /\ OnError(q)

ScenarioNext ==
    \/ StartBatch
    \/ AwaitBatch
    \/ MergeAndFinish
    \/ ScenarioOpen
    \/ ScenarioEvent
    \/ ScenarioEose
    \/ ScenarioTimeout
    \/ ScenarioClose
    \/ ScenarioError

ScenarioSpec == ScenarioInit /\ [][ScenarioNext]_vars

\* =========================================================== claims
Settled(q) == promise[q] \in {"resolved", "rejected"}

Pending == {q \in Queries : promise[q] = "pending"}

\* The results the batch loop has kept for query q.
KeptFor(q) == {k \in 1..Len(results) : results[k].query = q}

\* C1: a query ended by a transport error or by an unsolicited close hands the
\* orchestrator exactly the records it had accumulated, not an empty list.
C1_ErrorOrCloseKeepsRecords ==
    \A q \in Queries :
        settledBy[q] \in {"error", "close"} =>
            \A k \in KeptFor(q) : ResultList(results[k]) = servers[q]

\* C2: a query is finalized exactly once, by the first of EOSE, timeout, error
\* and close: once settled, neither the promise nor the trigger that settled it
\* changes again, and every started query does get settled.
C2_FinalizedOnceByFirstTrigger ==
    /\ [][\A q \in Queries :
            Settled(q) => promise'[q] = promise[q] /\ settledBy'[q] = settledBy[q]]_vars
    /\ [][\A q \in Queries :
            promise[q] = "pending" /\ Settled(q)' =>
                /\ settledBy[q] = "none"
                /\ settledBy'[q] \in {"eose", "timeout", "error", "close"}]_vars
    /\ \A q \in Queries : (promise[q] = "pending") ~> Settled(q)

\* A query rejected by an error whose socket then closed: the close handler's
\* resolve came second.
C2_Witness ==
    \E q \in Queries : settledBy[q] = "error" /\ promise[q] = "rejected" /\ ws[q] = "CLOSED"

\* C3: once a query is finalized, nothing delivered later on its connection
\* changes the list it handed to the orchestrator.
C3_FinalizedListFrozen ==
    [][\A q \in Queries : Settled(q) => servers'[q] = servers[q]]_vars

\* C4: a relay that stays silent cannot keep its query pending: the timer that
\* stops being armed leaves the promise settled, the timer's own firing closes
\* the socket and resolves with the list as it stands, and every pending query
\* is eventually settled.
C4_SilentRelayIsFinalized ==
    /\ [][\A q \in Queries : timer[q] /\ ~timer'[q] => Settled(q)']_vars
    /\ [][\A q \in Queries :
            settledBy[q] = "none" /\ settledBy'[q] = "timeout" =>
                /\ promise'[q] = "resolved"
                /\ ws'[q] = WsClose(ws[q])
                /\ servers'[q] = servers[q]]_vars
    /\ \A q \in Queries : (promise[q] = "pending") ~> Settled(q)

\* A query on an open socket that never saw EOSE, resolved by its timer with a
\* record in its list.
C4_Witness ==
    \E q \in Queries :
        settledBy[q] = "timeout" /\ promise[q] = "resolved" /\ ws[q] = "CLOSING"
        /\ servers[q] # <<>>

\* C5: at most concurrency queries are started and not yet finalized.
C5_PendingWithinLimit == Cardinality(Pending) <= concurrency

\* A batch of concurrency queries, all of them pending.
C5_Witness == Cardinality(Pending) = concurrency

\* ---------------------------------------------------- merge claims
\* The per-relay lists the merge step read, and the records in them.
MergeInput == [k \in 1..Len(results) |-> ResultList(results[k])]

InputRecords == UNION {Range(MergeInput[k]) : k \in 1..Len(MergeInput)}

InputUrls == {r.url : r \in InputRecords}

Newest(url) ==
    CHOOSE t \in {r.created_at : r \in {x \in InputRecords : x.url = url}} :
        \A r \in InputRecords : r.url = url => r.created_at <= t

\* The record the Map holds for each url of the output, in the output's order.
Retained == [k \in 1..Len(output.servers) |-> MapGet(serverMap, output.servers[k])]

MergeOutput(lists) == sortedServers(MergeResults(<<>>, lists))

\* C6: every url of the per-relay results is in the output exactly once, its
\* entry is one of the delivered records with the greatest createdAt for that
\* url, and the output holds no other url.
C6_OneNewestEntryPerUrl ==
    pc = "done" =>
        /\ \A url \in InputUrls :
             /\ Cardinality({k \in 1..Len(output.servers) : output.servers[k] = url}) = 1
             /\ Cardinality({k \in 1..Len(serverMap) : serverMap[k].url = url}) = 1
             /\ MapGet(serverMap, url) \in InputRecords
             /\ MapGet(serverMap, url).created_at = Newest(url)
        /\ Range(output.servers) \subseteq InputUrls

\* Two relays deliver the same url, the later list holding the newer record.
C6_Witness ==
    /\ pc = "done"
    /\ \E a, b \in 1..Len(MergeInput) : \E ra \in Range(MergeInput[a]), rb \in Range(MergeInput[b]) :
         a < b /\ ra.url = rb.url /\ ra.created_at < rb.created_at
    /\ Cardinality(InputUrls) >= 2

\* C7, as claimed: adjacent entries of the output have strictly decreasing
\* createdAt.
C7_StrictlyDescending ==
    pc = "done" =>
        \A k \in 1..(Len(output.servers) - 1) :
            Retained[k].created_at > Retained[k + 1].created_at

\* C7, amended: adjacent entries of the output never increase in createdAt; two
\* urls announced at the same second stand side by side.
C7_Descending ==
    pc = "done" =>
        \A k \in 1..(Len(output.servers) - 1) :
            Retained[k].created_at >= Retained[k + 1].created_at

\* Two relays each deliver a url, both announced at the same second: the
\* output holds both, side by side.
C7_Witness ==
    /\ pc = "done"
    /\ Len(output.servers) = 2
    /\ Retained[1].created_at = Retained[2].created_at
    /\ Len(MergeInput[1]) >= 1 /\ Len(MergeInput[2]) >= 1

\* C8: merging any permutation of the per-relay results gives the same output.
C8_OrderInsensitive ==
    pc = "done" =>
        \A lists \in SeqPermutations(MergeInput) : MergeOutput(lists) = output.servers

\* C9: merging the results followed by themselves gives the same output as
\* merging the results.
C9_IdempotentUnderDuplication ==
    pc = "done" => MergeOutput(MergeInput \o MergeInput) = output.servers

\* Results holding the same url twice, with different timestamps, and a second url.
C9_Witness ==
    /\ pc = "done"
    /\ Len(output.servers) = 2
    /\ \E ra, rb \in InputRecords : ra.url = rb.url /\ ra.created_at < rb.created_at

\* ------------------------------------------------------ the session
\* C10: no relay makes the session fail: it never ends in failure, and it ends
\* with success = true, relays_searched the length of the relay list, every
\* relay of the list having been queried, and count the length of the list of
\* servers.
C10_SessionAlwaysSucceeds ==
    /\ pc # "failed"
    /\ pc = "done" =>
         /\ output.success
         /\ output.relays_searched = Len(allRelays)
         /\ \A q \in 1..Len(allRelays) : Settled(q)
         /\ Len(results) = Len(allRelays)
         /\ output.count = Len(output.servers)

\* A session done with every relay of a three-relay list having failed: two by
\* a transport error, one by an address that is no URL.
C10_Witness ==
    /\ pc = "done"
    /\ Len(allRelays) = MaxRelays
    /\ \A q \in 1..Len(allRelays) : promise[q] = "rejected"
    /\ output.success /\ output.count = 0 /\ output.relays_searched = MaxRelays


\* ------------------------------------------------ relay list claims
DirectoryFailures == {"network_error", "aborted", "not_ok", "bad_json", "not_list"}

\* C11: when the call to the relay directory fails (network error, abort, a
\* status that is not OK, a body that does not decode or is no list) the relay
\* list is exactly the core relays, the session does not fail, and what it
\* writes reports success over that many relays.
C11_DirectoryFailureFallsBackToCore ==
    directory \in DirectoryFailures =>
        /\ allRelays = coreRelays
        /\ pc # "failed"
        /\ pc = "done" => output.success /\ output.relays_searched = Len(coreRelays)

\* A session that lost the directory and wrote its output.
C11_Witness ==
    directory \in DirectoryFailures /\ pc = "done" /\ output.success

\* C20: the relay list is the core relays in their fixed order followed by at
\* most maxAdditional addresses, each starting with wss:// and none of them a
\* core relay; the count of relays searched lies between the two sizes, and by
\* the end of a session every core relay had its query started.
C20_CoreFirstThenBoundedSample ==
    pc # "bootstrap" =>
        /\ Len(allRelays) >= Len(coreRelays)
        /\ SubSeq(allRelays, 1, Len(coreRelays)) = coreRelays
        /\ Len(allRelays) <= Len(coreRelays) + maxAdditional
        /\ \A k \in (Len(coreRelays) + 1)..Len(allRelays) :
                StartsWith(allRelays[k], Wss) /\ allRelays[k] \notin Range(coreRelays)
        /\ pc = "done" =>
                /\ output.relays_searched \in Len(coreRelays)..(Len(coreRelays) + maxAdditional)
                /\ \A k \in 1..Len(coreRelays) : promise[k] # "none"

\* A finished session over the longest relay list.
C20_Witness ==
    pc = "done" /\ Len(allRelays) = MaxRelays /\ output.relays_searched = MaxRelays


\* ------------------------------------------------- batch loop claims
\* The chunk of the relay list that query q belongs to, counted from 0.
ChunkOf(q) == (q - 1) \div concurrency

\* C14: the relay list is processed in consecutive chunks of concurrency
\* relays: a chunk is started whole, and when a query of a chunk has been
\* started every query of every earlier chunk is settled.
C14_ChunkBarrier ==
    \A q \in Started : \A p \in 1..Len(allRelays) :
        /\ ChunkOf(p) = ChunkOf(q) => p \in Started
        /\ ChunkOf(p) < ChunkOf(q) => Settled(p)

\* A query of the second chunk is pending.
C14_Witness ==
    \E q \in Pending : ChunkOf(q) > 0

\* C17: the Map is written only after all queries have completed: a step that
\* changes the Map starts from a state in which every relay's query is settled,
\* and while the Map holds a record no query is pending.
C17_MergeAfterAllQueries ==
    /\ [][serverMap' # serverMap =>
            \A q \in 1..Len(allRelays) : Settled(q)]_vars
    /\ [](serverMap # <<>> => Pending = {})

\* The merge has put records from two relays in the Map.
C17_Witness ==
    /\ Len(serverMap) >= 2
    /\ \A q \in 1..Len(allRelays) : Settled(q)

\* C18, as claimed: the timer is started when the subscribe request is sent, so
\* a query is finalized by its timer only after its connection has opened and
\* the request was sent.
C18_TimerStartsAtSubscribe ==
    \A q \in Queries : settledBy[q] = "timeout" => subscribed[q]

\* C18, amended: the timer is started when the query is created. Every pending
\* query has its timer armed, whether its socket is still connecting or open;
\* a timer that fires on a connecting socket finalizes the query with an empty
\* list and aborts the handshake, and no subscribe request is sent afterwards.
C18_TimerStartsWithQuery ==
    /\ [](\A q \in Queries : promise[q] = "pending" => timer[q])
    /\ [][\A q \in Queries :
            timer[q] /\ ~timer'[q] /\ ws[q] = "CONNECTING" /\ ws'[q] = "ABORTING" =>
                /\ settledBy'[q] = "timeout"
                /\ promise'[q] = "resolved"
                /\ servers'[q] = <<>>]_vars
    /\ [](\A q \in Queries : settledBy[q] = "timeout" /\ ws[q] = "ABORTING" => ~subscribed[q])

\* A query finalized by its timer before its socket opened.
C18_Witness ==
    \E q \in Queries :
        settledBy[q] = "timeout" /\ ~subscribed[q] /\ promise[q] = "resolved"
        /\ ws[q] = "ABORTING"

\* C19: with every armed timer firing in the end, whatever the relays do, every
\* started query is settled, every batch awaited is left behind, and the
\* session reaches the merge and writes its output.
C19_SessionTerminates ==
    /\ \A q \in Queries : (promise[q] # "none") ~> Settled(q)
    /\ (pc = "await") ~> (pc = "loop")
    /\ <>(pc = "done" /\ output.success)

\* The output written after a relay of the last batch was finalized by its timer.
C19_Witness ==
    /\ pc = "done"
    /\ output.success
    /\ \E q \in Queries : settledBy[q] = "timeout" /\ ChunkOf(q) > 0


\* ---------------------------------------------------- parser claims
\* The position of the first tag whose first element is key, or 0.
FirstTag(tags, key) ==
    LET hits == {k \in 1..Len(tags) :
                    ~tags[k].isNull /\ Len(tags[k].items) >= 1 /\ tags[k].items[1] = key}
    IN IF hits = {} THEN 0 ELSE CHOOSE k \in hits : \A j \in hits : k <= j

\* The first d tag exists and its second element starts with https://.
SecureDTag(event) ==
    /\ event.tagsIsArray
    /\ FirstTag(event.tags, "d") # 0
    /\ LET items == event.tags[FirstTag(event.tags, "d")].items
       IN Len(items) >= 2 /\ items[2].isString /\ StartsWith(items[2].text, Https)

DValue(event) == event.tags[FirstTag(event.tags, "d")].items[2].text

\* The lookup of key comes across a null tag: before its first match, or
\* anywhere when there is no match.
MeetsNull(tags, key) ==
    \E j \in 1..(IF FirstTag(tags, key) = 0 THEN Len(tags) ELSE FirstTag(tags, key)) :
        tags[j].isNull

\* C13, as claimed: the parser returns a record exactly when the first d tag
\* exists with a non-empty second element that starts with https://, the
\* record carrying that value as url and the event's id.
C13_RecordIffSecureDTag ==
    data.query # 0 =>
        LET event == data.message.event
            out == servers[data.query]
        IN /\ out # <<>> <=> SecureDTag(event)
           /\ SecureDTag(event) =>
                Len(out) = 1 /\ out[1].url = DValue(event) /\ out[1].event_id = event.id

\* C13, amended: the parser returns a record exactly when, besides, none of its
\* three lookups (d, name, description) comes across a null tag.
C13_RecordIffSecureDTagAndNoNullTag ==
    data.query # 0 =>
        LET event == data.message.event
            out == servers[data.query]
            record == /\ SecureDTag(event)
                      /\ ~MeetsNull(event.tags, "d")
                      /\ ~MeetsNull(event.tags, "name")
                      /\ ~MeetsNull(event.tags, "description")
        IN /\ out # <<>> <=> record
           /\ record =>
                Len(out) = 1 /\ out[1].url = DValue(event) /\ out[1].event_id = event.id

\* A secure d tag followed by a null tag: no record. And a secure d tag next
\* to a name tag: a record.
C13_Witness ==
    /\ data.query # 0
    /\ SecureDTag(data.message.event)
    /\ MeetsNull(data.message.event.tags, "name")
    /\ ~MeetsNull(data.message.event.tags, "d")
    /\ servers[data.query] = <<>>


\* ------------------------------------------------ connection claims
\* The step is the message handler of query data'.query run on data'.message.
Delivery == data'.query # 0 /\ Deliver(data'.query, data'.message, ConnMaxServers)

\* Events whose structure is broken: tags that are no array, a null tag.
MalformedEvents ==
    {e \in RawEvents : ~e.tagsIsArray \/ \E k \in 1..Len(e.tags) : e.tags[k].isNull}

\* A message that does not decode, or an EVENT with a malformed payload.
Malformed(message) ==
    \/ ~message.decodes
    \/ message.type = "EVENT" /\ message.event \in MalformedEvents

\* C15: a malformed unit is skipped. Handling it neither finalizes the query
\* nor touches its socket, timer or list; and on a connection whose last
\* message was malformed a valid event is still handled, its record appended
\* to the records already there.
C15_MalformedUnitSkipped ==
    /\ [][Delivery /\ Malformed(data'.message) =>
            /\ promise' = promise /\ settledBy' = settledBy
            /\ ws' = ws /\ timer' = timer
            /\ servers' = servers]_vars
    /\ [][Delivery /\ data'.query = data.query /\ Malformed(data.message)
            /\ IsOwn(data'.message, data'.query, "EVENT")
            /\ data'.message.event \in ValidEvents =>
            servers'[data'.query] =
                servers[data.query] \o parseBlossomServer(data'.message.event)]_vars
    /\ [](data.query # 0 /\ Malformed(data.message)
            /\ ws[data.query] \in {"OPEN", "CLOSING"}
            /\ Len(servers[data.query]) < ConnMaxServers =>
            \A e \in ValidEvents : ENABLED Deliver(data.query, OwnEvent(data.query, e), ConnMaxServers))

\* A pending query with a record in its list has just handled a malformed unit.
C15_Witness ==
    /\ data.query # 0
    /\ Malformed(data.message)
    /\ promise[data.query] = "pending"
    /\ ws[data.query] = "OPEN"
    /\ Len(servers[data.query]) = 1

\* C16: a message that carries another subscription id changes nothing of the
\* query: an EVENT appends no record, an EOSE neither settles the promise nor
\* closes the socket nor clears the timer.
C16_ForeignSubscriptionIgnored ==
    [][Delivery /\ data'.message.decodes /\ data'.message.sub # SubId(data'.query) =>
            /\ servers' = servers
            /\ promise' = promise /\ settledBy' = settledBy
            /\ ws' = ws /\ timer' = timer]_vars

\* A pending query on an open socket has just handled another subscription's
\* EOSE.
C16_Witness ==
    /\ data.query # 0
    /\ data.message.decodes
    /\ data.message.type = "EOSE"
    /\ data.message.sub # SubId(data.query)
    /\ promise[data.query] = "pending"
    /\ ws[data.query] = "OPEN"
    /\ timer[data.query]


====
